---- MODULE Spec2Model ----
(***************************************************************************)
(* Food-and-Nutrition: the prediction-and-enrichment pipeline.             *)
(*                                                                         *)
(* Two programs of the repository are modelled, selected by `program`:     *)
(*   "server"  src/food-and-nutrition/FastAPI server (food)/main.py        *)
(*             (ModelManager, get_nutrition_data,                          *)
(*              predict_food_and_nutrition, startup_event, analyze_image)  *)
(*   "cli"     src/model image classifier/imageclassifier.py               *)
(*             (FoodClassifier)                                            *)
(*                                                                         *)
(* Scheduling.  The server's handlers are coroutines on one event loop;    *)
(* the only suspension point of /analyze is `await file.read()`.  So any   *)
(* number of requests may be suspended there (`reading`), while at most    *)
(* one request runs predict_food_and_nutrition, from start to return       *)
(* (`pc`).  The command-line program is single threaded.                   *)
(*                                                                         *)
(* Strings the code inspects (labels, nutrient names) are sequences of     *)
(* one-character strings; messages the code only passes on are strings.    *)
(* JSON values are tagged records (JNull, JStr, JNum, JList); a dict is a  *)
(* record that holds exactly the keys the dict holds.                      *)
(***************************************************************************)
EXTENDS Integers, Sequences, FiniteSets, TLC

\* ------------------------------------------------------------------ bounds
NumRequests == 2        \* requests that may be suspended in `await file.read()`
MaxLabelLen == 3        \* length of a label of the classifier's vocabulary
MaxNutrients == 2       \* entries in the foodNutrients list of a matched food

\* ------------------------------------------------------- program constants
MAX_IMAGE_SIZE == 10485760
max_dimension == 2000
MIN_DIMENSION == 50
CONFIDENCE_THRESHOLD == 3000    \* 0.3, in 1/10000

\* ----------------------------------------------------------------- strings
Energy == <<"E", "n", "e", "r", "g", "y">>
Protein == <<"P", "r", "o", "t", "e", "i", "n">>
Carbohydrate == <<"C", "a", "r", "b", "o", "h", "y", "d", "r", "a", "t", "e">>
Total_lipid == <<"T", "o", "t", "a", "l", " ", "l", "i", "p", "i", "d">>
Fiber == <<"F", "i", "b", "e", "r">>
Sugars == <<"S", "u", "g", "a", "r", "s">>
Sodium == <<"S", "o", "d", "i", "u", "m">>
Calories == <<"C", "a", "l", "o", "r", "i", "e", "s">>
Total_lipid_fat == <<"T", "o", "t", "a", "l", " ", "l", "i", "p", "i", "d", " ", "(", "f", "a", "t", ")">>
Fat_total == <<"F", "a", "t", ",", " ", "t", "o", "t", "a", "l">>
Carbohydrate_by_difference == <<"C", "a", "r", "b", "o", "h", "y", "d", "r", "a", "t", "e", ",", " ", "b", "y", " ", "d", "i", "f", "f", "e", "r", "e", "n", "c", "e">>
Carbohydrates == <<"C", "a", "r", "b", "o", "h", "y", "d", "r", "a", "t", "e", "s">>
Fiber_total_dietary == <<"F", "i", "b", "e", "r", ",", " ", "t", "o", "t", "a", "l", " ", "d", "i", "e", "t", "a", "r", "y">>
Dietary_fiber == <<"D", "i", "e", "t", "a", "r", "y", " ", "f", "i", "b", "e", "r">>
Sugars_total == <<"S", "u", "g", "a", "r", "s", ",", " ", "t", "o", "t", "a", "l", " ", "i", "n", "c", "l", "u", "d", "i", "n", "g", " ", "N", "L", "E", "A">>
Sodium_Na == <<"S", "o", "d", "i", "u", "m", ",", " ", "N", "a">>

\* str.lower(), on the upper-case letters the strings of the model use
LowerChar(c) ==
    CASE c = "A" -> "a" [] c = "C" -> "c" [] c = "D" -> "d" [] c = "E" -> "e"
      [] c = "F" -> "f" [] c = "G" -> "g" [] c = "I" -> "i" [] c = "L" -> "l"
      [] c = "N" -> "n" [] c = "O" -> "o" [] c = "P" -> "p" [] c = "R" -> "r"
      [] c = "S" -> "s" [] c = "T" -> "t" [] c = "Y" -> "y" [] OTHER -> c

Lower(s) == [i \in 1..Len(s) |-> LowerChar(s[i])]

\* Python's `sub in s` on strings
Contains(sub, s) ==
    \E i \in 0..(Len(s) - Len(sub)) : SubSeq(s, i + 1, i + Len(sub)) = sub

\* str.replace(a, b) for one-character a and b
Replace(s, a, b) == [i \in 1..Len(s) |-> IF s[i] = a THEN b ELSE s[i]]

\* str.strip(): leading and trailing whitespace removed
Strip(s) ==
    LET ink == {i \in 1..Len(s) : s[i] # " "}
    IN  IF ink = {} THEN <<>>
        ELSE SubSeq(s, CHOOSE i \in ink : \A j \in ink : i <= j,
                       CHOOSE i \in ink : \A j \in ink : j <= i)

\* str.split()[0]: the first maximal run of non-whitespace characters
FirstWord(s) ==
    LET t   == Strip(s)
        gap == {i \in 1..Len(t) : t[i] = " "}
    IN  IF gap = {} THEN t
        ELSE SubSeq(t, 1, (CHOOSE i \in gap : \A j \in gap : i <= j) - 1)

\* len(str.split()): the number of words
WordCount(s) ==
    Cardinality({i \in 1..Len(s) : s[i] # " " /\ (i = 1 \/ s[i - 1] = " ")})

\* -------------------------------------------------------------- JSON values
JNull == [t |-> "null"]
JStr(s) == [t |-> "str", v |-> s]
JNum(n) == [t |-> "num", v |-> n]
JList(l) == [t |-> "list", v |-> l]

\* dict.get(key, default)
Get(d, key, default) == IF key \in DOMAIN d THEN d[key] ELSE default

\* Python truthiness of a JSON value, as `not x` reads it
Falsy(x) ==
    \/ x.t = "null"
    \/ x.t = "list" /\ x.v = <<>>
    \/ x.t = "num" /\ x.v = 0

\* -------------------------------------------------------------- environment
\* The classifier's vocabulary (model.config.id2label): words joined by single
\* underscores.
Labels ==
    {l \in UNION {[1..n -> {"a", "b", "_"}] : n \in 1..MaxLabelLen} :
        /\ l[1] # "_" /\ l[Len(l)] # "_"
        /\ \A i \in 1..(Len(l) - 1) : ~(l[i] = "_" /\ l[i + 1] = "_")}

\* softmax(...).max(), in 1/10000
Confidences == {2999, 3000, 9996}

\* Width and height of a decoded image, in pixels.
Dims == {1, 49, 50, 2000, 2001}

\* What the upload's UploadFile declares: content type, and size (0 stands for a
\* size that is None or 0: `file.size and ...` reads both as false).
ContentTypes == {"image/jpeg", "image/jpg", "image/png", "image/webp", "image/gif"}
FileSizes == {0, 1, MAX_IMAGE_SIZE, MAX_IMAGE_SIZE + 1}

\* One entry of a food's foodNutrients list, as the provider may send it.
NutrientEntries ==
    { [nutrientName |-> JStr(Energy), value |-> JNum(52), unitName |-> JStr("KCAL")],
      [nutrientName |-> JStr(<<"P", "R", "O", "T", "E", "I", "N", " ", "x">>),
       value |-> JNum(0), unitName |-> JStr("G")],
      [nutrientName |-> JStr(Sodium_Na)],
      [value |-> JNum(7)],
      [nutrientName |-> JNull, value |-> JNum(1)] }

NutrientLists == UNION {[1..n -> NutrientEntries] : n \in 0..MaxNutrients}

\* The first food of a search result.
Foods ==
    {[description |-> JStr("Food, raw"), foodNutrients |-> JList(l)] : l \in NutrientLists}
    \cup { [fdcId |-> JNum(1)],
           [description |-> JStr("Food, raw"), foodNutrients |-> JNull] }

\* The JSON body of a 200 answer: not JSON at all, or a dict.
Bodies ==
    { [json |-> FALSE],
      [json |-> TRUE, data |-> [totalHits |-> JNum(0)]],
      [json |-> TRUE, data |-> [foods |-> JNull]],
      [json |-> TRUE, data |-> [foods |-> JList(<<>>)]] }
    \cup {[json |-> TRUE, data |-> [foods |-> JList(<<f>>)]] : f \in Foods}

\* What requests.get(url, timeout=...) does: raises, or returns a response.
Responses ==
    { [kind |-> "timeout"], [kind |-> "connection"], [kind |-> "request"] }
    \cup {[kind |-> "http", status_code |-> s, body |-> [json |-> FALSE]] :
              s \in {204, 401, 403, 429, 500}}
    \cup {[kind |-> "http", status_code |-> 200, body |-> b] : b \in Bodies}

\* -------------------------------------------------------------------- state
VARIABLES
    program,        \* "server" or "cli": which program this behaviour runs
    phase,          \* server: "init", "serving" (startup done), "failed" (exited)
    is_loaded,      \* ModelManager._is_loaded / FoodClassifier.is_loaded
    model,          \* TRUE when _model / model is set (not None)
    processor,      \* TRUE when _processor / processor is set (not None)
    load_count,     \* loads that ran to completion (both from_pretrained calls)
    reading,        \* server: requests suspended in `await file.read()`
    upload,         \* server: the upload of the running request, until it is
                    \* decoded: declared content type and size, bytes read
    pc,             \* where the running request is
    image,          \* size of the decoded image, from decode to inference
    label,          \* for the server id2label[...], for the cli readable_label
    confidence,     \* in 1/10000
    result,         \* what the pipeline returns
    response,       \* what /analyze answers
    queries,        \* the searches sent to the provider in this run, each with
                    \* its term, its timeout and what came back
    food,           \* the food the nutrition record is built from: foods[0]
    forward,        \* forward passes of the model in this run
    run_loads       \* from_pretrained attempts in this run

vars == <<program, phase, is_loaded, model, processor, load_count,
          reading, upload, pc, image, label, confidence, result, response, queries,
          food, forward, run_loads>>

cache == <<is_loaded, model, processor, load_count>>
locals == <<image, label, confidence, result, queries, food, forward, run_loads>>

NoUpload == [content_type |-> "", size |-> 0, len |-> 0]
NoImage == [w |-> 0, h |-> 0]
NoResult == [pending |-> TRUE]
NoResponse == [status_code |-> 0]
NoFood == [none |-> TRUE]

Init ==
    /\ program \in {"server", "cli"}
    /\ phase = "init"
    /\ is_loaded = FALSE /\ model = FALSE /\ processor = FALSE
    /\ load_count = 0
    /\ reading = 0 /\ upload = NoUpload
    /\ pc = "idle"
    /\ image = NoImage /\ label = <<>> /\ confidence = 0
    /\ result = NoResult /\ response = NoResponse
    /\ queries = <<>> /\ food = NoFood /\ forward = 0 /\ run_loads = 0

\* ------------------------------------------------------------ model loading
\* How the two from_pretrained calls of one attempt end.
LoadOutcomes == {"ok", "model_fails", "processor_fails"}

\* load_model without its `if not is_loaded` test
load_model_unguarded(o) ==
    /\ model' = (IF o = "model_fails" THEN model ELSE TRUE)
    /\ processor' = (IF o = "ok" THEN TRUE ELSE processor)
    /\ is_loaded' = (o = "ok")
    /\ load_count' = load_count + (IF o = "ok" THEN 1 ELSE 0)

\* load_model setting is_loaded between the two from_pretrained calls
load_model_flag_early(o) ==
    IF is_loaded
    THEN UNCHANGED cache
    ELSE /\ model' = (IF o = "model_fails" THEN model ELSE TRUE)
         /\ processor' = (IF o = "ok" THEN TRUE ELSE processor)
         /\ is_loaded' = (o # "model_fails")
         /\ load_count' = load_count + (IF o = "ok" THEN 1 ELSE 0)

\* ModelManager.load_model / FoodClassifier.load_model, with outcome o.
\* It raises exactly when it leaves is_loaded false.
load_model(o) ==
    IF is_loaded
    THEN UNCHANGED cache
    ELSE /\ model' = (IF o = "model_fails" THEN model ELSE TRUE)
         /\ processor' = (IF o = "ok" THEN TRUE ELSE processor)
         /\ is_loaded' = (o = "ok")
         /\ load_count' = load_count + (IF o = "ok" THEN 1 ELSE 0)

\* @app.on_event("startup"): the load's exception leaves the handler, and the
\* server exits instead of serving.
startup_event ==
    /\ program = "server" /\ phase = "init" /\ pc = "idle"
    /\ \E o \in LoadOutcomes :
          /\ load_model(o)
          /\ phase' = (IF is_loaded' THEN "serving" ELSE "failed")
    /\ UNCHANGED <<program, reading, upload, pc, response>>
    /\ UNCHANGED locals

\* GET /health
health_check ==
    [status |-> "healthy", model_loaded |-> is_loaded, api_key_configured |-> TRUE]

\* ------------------------------------------------- server: nutrition lookup
\* get_nutrition_data: clean_label
clean_label(food_label) == Strip(Replace(food_label, "_", " "))

\* get_nutrition_data: what the status of the search response returns, if anything
StatusError(status_code) ==
    IF status_code = 401 THEN [error |-> "Nutrition API authentication failed"]
    ELSE IF status_code = 429 THEN [error |-> "Rate limit exceeded. Please try again later"]
    ELSE IF status_code # 200 THEN [error |-> "Nutrition API error", status_code |-> status_code]
    ELSE [ok |-> TRUE]

\* get_nutrition_data: the except clauses, by what requests.get raised
ExceptionError(kind) ==
    IF kind = "timeout" THEN [error |-> "Nutrition API timeout. Please try again"]
    ELSE IF kind = "connection" THEN [error |-> "Cannot connect to nutrition API"]
    ELSE IF kind = "request" THEN [error |-> "Nutrition API request failed"]
    ELSE [error |-> "Unexpected error occurred"]

\* response.json() on a body that is not JSON raises: a RequestException in the
\* requests releases that derive JSONDecodeError from it, a ValueError before.
JsonErrors == {ExceptionError("request"), ExceptionError("other")}

\* fallback_label searching the whole label again
fallback_label_whole(clean) == clean

\* get_nutrition_data: fallback_label
fallback_label(clean) == IF WordCount(clean) > 1 THEN FirstWord(clean) ELSE clean

\* NoNutritionData naming the term of the fallback search
NoNutritionData_fallback(clean) ==
    [error |-> "No nutrition data found",
     searched_term |-> IF WordCount(clean) > 1 THEN FirstWord(clean) ELSE clean,
     suggestion |-> "Try taking a clearer photo, a different angle, or a more common food name."]

\* get_nutrition_data: the answer when both searches found nothing
NoNutritionData(clean) ==
    [error |-> "No nutrition data found",
     searched_term |-> clean,
     suggestion |-> "Try taking a clearer photo, a different angle, or a more common food name."]

Raise == [t |-> "raise"]

\* get_nutrient: does reading entry n raise (a nutrientName that is not a string)?
EntryRaises(n) == Get(n, "nutrientName", JStr(<<>>)).t # "str"

\* get_nutrient: name.lower() in n.get("nutrientName", "").lower()
EntryMatches(n, name) == Contains(Lower(name), Lower(Get(n, "nutrientName", JStr(<<>>)).v))

\* get_nutrient(nutrients, name): the value of the first entry whose name contains
\* `name`, 0 when there is none
get_nutrient(nutrients, name) ==
    LET stop == {i \in 1..Len(nutrients) :
                    EntryRaises(nutrients[i]) \/ EntryMatches(nutrients[i], name)}
    IN  IF stop = {} THEN JNum(0)
        ELSE LET i == CHOOSE k \in stop : \A j \in stop : k <= j
             IN  IF EntryRaises(nutrients[i]) THEN Raise
                 ELSE Get(nutrients[i], "value", JNum(0))

\* get_nutrition_data: the record built from the first food found
NutritionRecord(fd) ==
    LET fn == Get(fd, "foodNutrients", JList(<<>>))
    IN  IF fn.t # "list" THEN ExceptionError("other")
        ELSE LET rec == [calories |-> get_nutrient(fn.v, Energy),
                         protein_g |-> get_nutrient(fn.v, Protein),
                         carbohydrates_total_g |-> get_nutrient(fn.v, Carbohydrate),
                         fat_total_g |-> get_nutrient(fn.v, Total_lipid),
                         fiber_g |-> get_nutrient(fn.v, Fiber),
                         sugar_g |-> get_nutrient(fn.v, Sugars),
                         sodium_mg |-> get_nutrient(fn.v, Sodium),
                         food_name |-> Get(fd, "description", JStr(""))]
             IN  IF \E k \in DOMAIN rec : rec[k] = Raise
                 THEN ExceptionError("other") ELSE rec

\* NutritionRecord, tabulated over the foods the provider may send
NutritionRecordOf == [fd \in Foods |-> NutritionRecord(fd)]

\* The foods of a parsed search answer: search_data.get("foods", [])
FoodsOf(data) ==
    LET foods == Get(data, "foods", JList(<<>>))
    IN  IF Falsy(foods) THEN <<>> ELSE foods.v

\* get_nutrition_data, first search: the possible outcomes for response `resp`,
\* each either the dict returned or the foods found (none: go on to the fallback)
SearchOutcomes(resp) ==
    IF resp.kind # "http" THEN {[returns |-> TRUE, value |-> ExceptionError(resp.kind)]}
    ELSE IF "error" \in DOMAIN StatusError(resp.status_code)
    THEN {[returns |-> TRUE, value |-> StatusError(resp.status_code)]}
    ELSE IF ~resp.body.json THEN {[returns |-> TRUE, value |-> e] : e \in JsonErrors}
    ELSE {[returns |-> FALSE, foods |-> FoodsOf(resp.body.data)]}

\* FallbackOutcomes mapping the status of the fallback answer as the first search does
FallbackOutcomes_mapped(resp) ==
    IF resp.kind # "http" THEN {[returns |-> TRUE, value |-> ExceptionError(resp.kind)]}
    ELSE IF "error" \in DOMAIN StatusError(resp.status_code)
    THEN {[returns |-> TRUE, value |-> StatusError(resp.status_code)]}
    ELSE IF ~resp.body.json THEN {[returns |-> TRUE, value |-> e] : e \in JsonErrors}
    ELSE {[returns |-> FALSE, foods |-> FoodsOf(resp.body.data)]}

\* get_nutrition_data, fallback search: a status other than 200 counts as no foods
FallbackOutcomes(resp) ==
    IF resp.kind # "http" THEN {[returns |-> TRUE, value |-> ExceptionError(resp.kind)]}
    ELSE IF resp.status_code # 200 THEN {[returns |-> FALSE, foods |-> <<>>]}
    ELSE IF ~resp.body.json THEN {[returns |-> TRUE, value |-> e] : e \in JsonErrors}
    ELSE {[returns |-> FALSE, foods |-> FoodsOf(resp.body.data)]}

\* One search as the provider saw and answered it: what requests.get raised,
\* status_code 0 when it raised, items -1 when the answer held no list of foods to count.
Sent(term, timeout, resp) ==
    [term |-> term,
     timeout |-> timeout,
     raised |-> (IF resp.kind = "http" THEN "nothing" ELSE resp.kind),
     status_code |-> (IF resp.kind = "http" THEN resp.status_code ELSE 0),
     items |-> (IF resp.kind = "http" /\ resp.status_code = 200 /\ resp.body.json
                THEN Len(FoodsOf(resp.body.data)) ELSE -1)]

\* --------------------------------------------------------- server: pipeline
SUPPORTED_IMAGE_TYPES == {"image/jpeg", "image/jpg", "image/png", "image/webp"}

\* validate_image: the detail of the HTTPException it raises, or "ok"
validate_image(content_type, size) ==
    IF content_type \notin SUPPORTED_IMAGE_TYPES THEN "Unsupported image type"
    ELSE IF size # 0 /\ size > MAX_IMAGE_SIZE THEN "Image too large"
    ELSE "ok"

HTTPException(code, detail) == [status_code |-> code, detail |-> detail]

\* round(x, 3): from 1/10000 to 1/1000 (the inputs hold no tie)
Round3(c) == (c + 5) \div 10

\* int(x) of the float product n * (max_dimension / m): the exact quotient
\* truncated; where the quotient is a whole number the float product may fall
\* just below it, and truncate to one less.
IntOfProduct(n, m) ==
    LET q == (n * max_dimension) \div m
    IN  IF (n * max_dimension) % m = 0 /\ q > 0 THEN {q, q - 1} ELSE {q}

\* new_size with the larger of the two ratios
new_size_max_ratio(w, h) ==
    LET m == IF w < h THEN w ELSE h
    IN  {[w |-> a, h |-> b] : a \in IntOfProduct(w, m), b \in IntOfProduct(h, m)}

\* predict_food_and_nutrition: new_size
new_size(w, h) ==
    LET m == IF w > h THEN w ELSE h
    IN  {[w |-> a, h |-> b] : a \in IntOfProduct(w, m), b \in IntOfProduct(h, m)}

\* predict_food_and_nutrition: does the image get resized?
NeedsResize(w, h) == w > max_dimension \/ h > max_dimension

\* predict_food_and_nutrition: the size check after the resize
TooSmall(img) == img.w < MIN_DIMENSION \/ img.h < MIN_DIMENSION

\* POST /analyze, up to `await file.read()`.  A request can be handled without
\* startup_event having run (the app mounted in another, or driven without its
\* lifespan); its own load_model call is then the first.
analyze_image ==
    /\ program = "server" /\ phase # "failed" /\ pc = "idle"
    /\ reading < NumRequests
    /\ \E ct \in ContentTypes, size \in FileSizes :
          IF validate_image(ct, size) # "ok"
          THEN /\ response' = HTTPException(400, validate_image(ct, size))
               /\ pc' = "done"
               /\ UNCHANGED reading
          ELSE /\ reading' = reading + 1
               /\ UNCHANGED <<pc, response>>
    /\ UNCHANGED <<program, phase, upload>>
    /\ UNCHANGED cache
    /\ UNCHANGED locals

\* What `await file.read()` gives for an upload of declared size `size`: an
\* exception, or the bytes (their number).  A size that is set is the number
\* of bytes received; one that is not set (0 here) says nothing about them.
ReadOutcomes(size) ==
    {[ok |-> FALSE, len |-> 0]}
    \cup {[ok |-> TRUE, len |-> n] :
              n \in (IF size = 0 THEN {0, 1, MAX_IMAGE_SIZE + 1} ELSE {size})}

\* POST /analyze, resumed with the bytes read: one of the requests that passed
\* validate_image with its declared content type and size
analyze_image_read ==
    /\ program = "server" /\ phase # "failed" /\ pc = "idle"
    /\ reading > 0
    /\ reading' = reading - 1
    /\ \E ct \in ContentTypes, size \in FileSizes :
          /\ validate_image(ct, size) = "ok"
          /\ \E r \in ReadOutcomes(size) :
                IF ~r.ok
                THEN /\ response' = HTTPException(400, "Failed to read uploaded file")
                     /\ pc' = "done" /\ UNCHANGED upload
                ELSE IF r.len = 0
                THEN /\ response' = HTTPException(400, "Empty file uploaded")
                     /\ pc' = "done" /\ UNCHANGED upload
                ELSE /\ upload' = [content_type |-> ct, size |-> size, len |-> r.len]
                     /\ pc' = "load"
                     /\ UNCHANGED response
    /\ UNCHANGED <<program, phase>>
    /\ UNCHANGED cache
    /\ UNCHANGED locals

\* POST /analyze: the answer made from the pipeline's result
JSONResponse(res) ==
    IF "error" \in DOMAIN res
    THEN [status_code |-> 400, content |-> res]
    ELSE [status_code |-> 200, content |-> res]

\* predict_food_and_nutrition returns res, and /analyze answers with it
Return(res) ==
    /\ result' = res
    /\ response' = JSONResponse(res)
    /\ pc' = "done"

UnexpectedError == [error |-> "An unexpected error occurred during analysis"]
InferenceError == [error |-> "Failed to analyze image with AI model"]
ImageTooSmall == [error |-> "Image too small. Minimum size: 50x50 pixels"]

\* predict_food_and_nutrition: model_manager.load_model(); what it raises is
\* caught by the outer except
predict_load ==
    /\ program = "server" /\ pc = "load"
    /\ \E o \in LoadOutcomes :
          /\ load_model(o)
          /\ run_loads' = (IF is_loaded THEN 0 ELSE 1)
          /\ IF is_loaded'
             THEN pc' = "decode" /\ UNCHANGED <<result, response>>
             ELSE Return(UnexpectedError)
    /\ UNCHANGED <<program, phase, reading, upload>>
    /\ UNCHANGED <<image, label, confidence, queries, food, forward>>

\* predict_food_and_nutrition: Image.open(...).convert("RGB") on the bytes of
\* the upload, which are not read after this step
predict_decode ==
    /\ program = "server" /\ pc = "decode"
    /\ upload' = NoUpload
    /\ \/ /\ Return([error |-> "Invalid image format or corrupted image"])
          /\ UNCHANGED image
       \/ /\ Return([error |-> "Failed to process image"])
          /\ UNCHANGED image
       \/ /\ \E w \in Dims, h \in Dims : image' = [w |-> w, h |-> h]
          /\ pc' = "dimensions" /\ UNCHANGED <<result, response>>
    /\ UNCHANGED <<program, phase, reading>>
    /\ UNCHANGED cache
    /\ UNCHANGED <<label, confidence, queries, food, forward, run_loads>>

\* predict_food_and_nutrition: resize above max_dimension, then the minimum
\* size.  Image.resize raises ValueError for a side of 0 pixels, which the
\* outer except catches.
predict_dimensions ==
    /\ program = "server" /\ pc = "dimensions"
    /\ \E resized \in (IF NeedsResize(image.w, image.h)
                       THEN new_size(image.w, image.h) ELSE {image}) :
          IF resized.w < 1 \/ resized.h < 1
          THEN Return(UnexpectedError) /\ UNCHANGED image
          ELSE IF TooSmall(resized)
          THEN Return(ImageTooSmall) /\ image' = resized
          ELSE /\ image' = resized
               /\ pc' = "infer" /\ UNCHANGED <<result, response>>
    /\ UNCHANGED <<program, phase, reading, upload>>
    /\ UNCHANGED cache
    /\ UNCHANGED <<label, confidence, queries, food, forward, run_loads>>

\* predict_food_and_nutrition: processor, forward pass, argmax and softmax.
\* The image is not read after this step.
predict_inference ==
    /\ program = "server" /\ pc = "infer"
    /\ image' = NoImage
    /\ \/ /\ Return(InferenceError)
          /\ forward' \in {forward, forward + 1}
          /\ UNCHANGED <<label, confidence>>
       \/ /\ \E l \in Labels, c \in Confidences : label' = l /\ confidence' = c
          /\ forward' = forward + 1
          /\ pc' = "nutrition" /\ UNCHANGED <<result, response>>
    /\ UNCHANGED <<program, phase, reading, upload>>
    /\ UNCHANGED cache
    /\ UNCHANGED <<queries, food, run_loads>>

\* Envelope letting a failed lookup fail the whole result
Envelope_flat(nutrition_info) ==
    IF "error" \in DOMAIN nutrition_info THEN nutrition_info
    ELSE [predicted_food |-> Replace(label, "_", " "),
          confidence |-> Round3(confidence),
          nutrition |-> nutrition_info,
          inference_time |-> "seconds"]

\* predict_food_and_nutrition: the dict returned after get_nutrition_data
Envelope(nutrition_info) ==
    [predicted_food |-> Replace(label, "_", " "),
     confidence |-> Round3(confidence),
     nutrition |-> nutrition_info,
     inference_time |-> "seconds"]

\* The first food found, made into the pipeline's result
Enrich(foods) == Envelope(NutritionRecordOf[foods[1]])

\* get_nutrition_data: the search for clean_label
get_nutrition_data ==
    /\ program = "server" /\ pc = "nutrition"
    /\ \E resp \in Responses : \E o \in SearchOutcomes(resp) :
          /\ queries' = Append(queries, Sent(clean_label(label), 10, resp))
          /\ IF o.returns
             THEN Return(Envelope(o.value)) /\ UNCHANGED food
             ELSE IF o.foods = <<>>
             THEN pc' = "fallback" /\ UNCHANGED <<result, response, food>>
             ELSE Return(Enrich(o.foods)) /\ food' = o.foods[1]
    /\ UNCHANGED <<program, phase, reading, upload>>
    /\ UNCHANGED cache
    /\ UNCHANGED <<image, label, confidence, forward, run_loads>>

\* get_nutrition_data: the fallback search, for the first word
get_nutrition_data_fallback ==
    /\ program = "server" /\ pc = "fallback"
    /\ \E resp \in Responses : \E o \in FallbackOutcomes(resp) :
          /\ queries' = Append(queries, Sent(fallback_label(clean_label(label)), 10, resp))
          /\ IF o.returns
             THEN Return(Envelope(o.value)) /\ UNCHANGED food
             ELSE IF o.foods = <<>>
             THEN Return(Envelope(NoNutritionData(clean_label(label)))) /\ UNCHANGED food
             ELSE Return(Enrich(o.foods)) /\ food' = o.foods[1]
    /\ UNCHANGED <<program, phase, reading, upload>>
    /\ UNCHANGED cache
    /\ UNCHANGED <<image, label, confidence, forward, run_loads>>

\* ----------------------------------------------------- cli: nutrition lookup
\* get_nutrition_usda: what the status of the response returns, if anything
UsdaStatusError(status_code) ==
    IF status_code = 403 THEN [error |-> "USDA API authentication failed - check API key"]
    ELSE IF status_code = 429 THEN [error |-> "USDA API rate limit exceeded. Please try again later"]
    ELSE IF status_code # 200 THEN [error |-> "USDA API error", status_code |-> status_code]
    ELSE [ok |-> TRUE]

\* get_nutrition_usda: the except clauses, by what was raised
UsdaExceptionError(kind) ==
    IF kind = "timeout" THEN [error |-> "USDA API timeout. Please try again"]
    ELSE IF kind = "connection" THEN [error |-> "Cannot connect to USDA API. Check internet connection"]
    ELSE IF kind = "request" THEN [error |-> "USDA API request failed"]
    ELSE [error |-> "Unexpected error occurred"]

\* get_nutrition_usda: the answer when the search found nothing
UsdaNotFound(clean_name) ==
    [error |-> "No nutrition data found in USDA database",
     searched_term |-> clean_name,
     suggestion |-> "Try a more generic food name or check spelling"]

\* get_nutrition_usda: nutrient_map, in the dict's order
nutrient_map ==
    << [name |-> "Energy", variations |-> {Energy, Calories}],
       [name |-> "Protein", variations |-> {Protein}],
       [name |-> "Total lipid (fat)", variations |-> {Total_lipid_fat, Fat_total}],
       [name |-> "Carbohydrate, by difference",
        variations |-> {Carbohydrate_by_difference, Carbohydrates}],
       [name |-> "Fiber, total dietary", variations |-> {Fiber_total_dietary, Dietary_fiber}],
       [name |-> "Sugars, total including NLEA", variations |-> {Sugars_total, Sugars}],
       [name |-> "Sodium, Na", variations |-> {Sodium_Na, Sodium}] >>

\* The nutrient_map entries whose variations the entry's name contains
StandardsOf(n) ==
    {k \in 1..Len(nutrient_map) :
        \E var \in nutrient_map[k].variations :
            Contains(Lower(var), Lower(Get(n, "nutrientName", JStr(<<>>)).v))}

\* f"{nutrient_value} {nutrient_unit}"
Fmt(n) == [t |-> "fmt", value |-> Get(n, "value", JNum(0)), unit |-> Get(n, "unitName", JStr(""))]

NA == JStr("N/A")

\* get_nutrition_usda: the nutrients dict: each entry is filed under the first
\* standard name it matches, a later entry replacing an earlier one
UsdaNutrients(fn) ==
    LET std(i) == CHOOSE k \in StandardsOf(fn[i]) : \A j \in StandardsOf(fn[i]) : k <= j
        filed(name) == {i \in 1..Len(fn) :
                           StandardsOf(fn[i]) # {} /\ nutrient_map[std(i)].name = name}
        names == {nutrient_map[k].name : k \in 1..Len(nutrient_map)}
    IN  [name \in {x \in names : filed(x) # {}} |->
            Fmt(fn[CHOOSE i \in filed(name) : \A j \in filed(name) : j <= i])]

\* get_nutrition_usda: the record built from data["foods"][0]
UsdaRecord(fd) ==
    LET fn == Get(fd, "foodNutrients", JList(<<>>))
    IN  IF fn.t # "list" THEN UsdaExceptionError("other")
        ELSE IF \E i \in 1..Len(fn.v) : EntryRaises(fn.v[i])
        THEN UsdaExceptionError("other")
        ELSE IF "description" \notin DOMAIN fd
        THEN UsdaExceptionError("other")
        ELSE LET nutrients == UsdaNutrients(fn.v)
             IN  [food_description |-> fd.description,
                  data_source |-> Get(fd, "dataType", JStr("Unknown")),
                  fdc_id |-> Get(fd, "fdcId", JNull),
                  nutrients |-> nutrients,
                  calories |-> Get(nutrients, "Energy", NA),
                  protein |-> Get(nutrients, "Protein", NA),
                  fat |-> Get(nutrients, "Total lipid (fat)", NA),
                  carbs |-> Get(nutrients, "Carbohydrate, by difference", NA),
                  fiber |-> Get(nutrients, "Fiber, total dietary", NA),
                  sodium |-> Get(nutrients, "Sodium, Na", NA)]

\* UsdaRecord, tabulated over the foods the provider may send
UsdaRecordOf == [fd \in Foods |-> UsdaRecord(fd)]

\* get_nutrition_usda(food_name): the possible answers for response `resp`
UsdaOutcomes(resp, food_name) ==
    IF resp.kind # "http" THEN {UsdaExceptionError(resp.kind)}
    ELSE IF "error" \in DOMAIN UsdaStatusError(resp.status_code)
    THEN {UsdaStatusError(resp.status_code)}
    ELSE IF ~resp.body.json
    THEN {UsdaExceptionError("request"), UsdaExceptionError("other")}
    ELSE IF FoodsOf(resp.body.data) = <<>>
    THEN {UsdaNotFound(clean_label(food_name))}
    ELSE {UsdaRecordOf[FoodsOf(resp.body.data)[1]]}

\* ------------------------------------------------------------ cli: pipeline
AnalysisFailed == [error |-> "Analysis failed"]

\* FoodClassifier.analyze_image: `if not self.is_loaded: self.load_model()`;
\* what load_model raises is caught by the outer except
classify_load ==
    /\ program = "cli" /\ pc = "idle"
    /\ \E o \in LoadOutcomes :
          /\ load_model(o)
          /\ run_loads' = (IF is_loaded THEN 0 ELSE 1)
          /\ IF is_loaded'
             THEN pc' = "c_validate" /\ UNCHANGED result
             ELSE pc' = "done" /\ result' = AnalysisFailed
    /\ UNCHANGED <<program, phase, reading, upload, response>>
    /\ UNCHANGED <<image, label, confidence, queries, food, forward>>

\* validate_image_path: what it finds wrong with the path
PathFaults == {"not found", "not a file", "empty", "too large", "unsupported format"}

\* FoodClassifier.analyze_image: validate_image_path raises into the outer except
classify_validate_path ==
    /\ program = "cli" /\ pc = "c_validate"
    /\ \/ /\ \E f \in PathFaults : result' = [error |-> "Analysis failed", cause |-> f]
          /\ pc' = "done"
       \/ /\ pc' = "c_open" /\ UNCHANGED result
    /\ UNCHANGED <<program, phase, reading, upload, response>>
    /\ UNCHANGED cache
    /\ UNCHANGED <<image, label, confidence, queries, food, forward, run_loads>>

\* FoodClassifier.analyze_image: Image.open, convert, and the minimum size
classify_open ==
    /\ program = "cli" /\ pc = "c_open"
    /\ \/ /\ result' = [error |-> "Invalid or corrupted image file"]
          /\ pc' = "done" /\ UNCHANGED image
       \/ /\ result' = [error |-> "Failed to load image"]
          /\ pc' = "done" /\ UNCHANGED image
       \/ \E w \in Dims, h \in Dims :
            /\ image' = [w |-> w, h |-> h]
            /\ IF w < MIN_DIMENSION \/ h < MIN_DIMENSION
               THEN pc' = "done" /\ result' = ImageTooSmall
               ELSE pc' = "c_infer" /\ UNCHANGED result
    /\ UNCHANGED <<program, phase, reading, upload, response>>
    /\ UNCHANGED cache
    /\ UNCHANGED <<label, confidence, queries, food, forward, run_loads>>

\* BelowThreshold with the threshold itself below it
BelowThreshold_inclusive(c) == c <= CONFIDENCE_THRESHOLD

\* FoodClassifier.analyze_image: `if confidence < 0.3`
BelowThreshold(c) == c < CONFIDENCE_THRESHOLD

\* FoodClassifier.analyze_image: the result below the confidence threshold
LowConfidence ==
    [predicted_food |-> label',
     confidence |-> Round3(confidence'),
     warning |-> "Low confidence prediction. Consider using a clearer image",
     nutrition |-> [error |-> "Skipped nutrition lookup due to low confidence"],
     inference_time |-> "seconds"]

\* FoodClassifier.analyze_image: processor, forward pass, readable_label and
\* the confidence threshold
classify_inference ==
    /\ program = "cli" /\ pc = "c_infer"
    /\ \/ /\ result' = [error |-> "Failed to analyze image"]
          /\ forward' \in {forward, forward + 1}
          /\ pc' = "done" /\ UNCHANGED <<label, confidence>>
       \/ /\ \E l \in Labels, c \in Confidences :
                label' = Replace(l, "_", " ") /\ confidence' = c
          /\ forward' = forward + 1
          /\ IF BelowThreshold(confidence')
             THEN pc' = "done" /\ result' = LowConfidence
             ELSE pc' = "c_nutrition" /\ UNCHANGED result
    /\ UNCHANGED <<program, phase, reading, upload, response>>
    /\ UNCHANGED cache
    /\ UNCHANGED <<image, queries, food, run_loads>>

\* FoodClassifier.analyze_image: get_nutrition_usda(readable_label) and the result
classify_nutrition ==
    /\ program = "cli" /\ pc = "c_nutrition"
    /\ \E resp \in Responses : \E nutrition_info \in UsdaOutcomes(resp, label) :
          /\ queries' = Append(queries, Sent(clean_label(label), 15, resp))
          /\ food' = (IF resp.kind = "http" /\ "ok" \in DOMAIN UsdaStatusError(resp.status_code)
                          /\ resp.body.json /\ FoodsOf(resp.body.data) # <<>>
                      THEN FoodsOf(resp.body.data)[1] ELSE NoFood)
          /\ result' = [predicted_food |-> label,
                        confidence |-> Round3(confidence),
                        nutrition |-> nutrition_info,
                        inference_time |-> "seconds",
                        image_info |-> [dimensions |-> image, mode |-> "RGB"]]
    /\ pc' = "done"
    /\ UNCHANGED <<program, phase, reading, upload, response>>
    /\ UNCHANGED cache
    /\ UNCHANGED <<image, label, confidence, forward, run_loads>>

\* The answer is sent (server) or returned to the caller (cli): the run is over.
finish ==
    /\ pc = "done"
    /\ pc' = "idle"
    /\ response' = NoResponse /\ upload' = NoUpload
    /\ image' = NoImage /\ label' = <<>> /\ confidence' = 0
    /\ result' = NoResult /\ queries' = <<>> /\ food' = NoFood /\ forward' = 0 /\ run_loads' = 0
    /\ UNCHANGED <<program, phase, reading>>
    /\ UNCHANGED cache

Next ==
    \/ startup_event
    \/ analyze_image
    \/ analyze_image_read
    \/ predict_load
    \/ predict_decode
    \/ predict_dimensions
    \/ predict_inference
    \/ get_nutrition_data
    \/ get_nutrition_data_fallback
    \/ classify_load
    \/ classify_validate_path
    \/ classify_open
    \/ classify_inference
    \/ classify_nutrition
    \/ finish

Spec == Init /\ [][Next]_vars

\* ------------------------------------------------ the first server (legacy)
\* src/FastAPI server (food)/main.py: model and processor are loaded when the
\* module is imported, so the program serves only with both loaded; nothing in
\* it catches an exception, and /analyze answers 500 when one escapes.
LegacyInit ==
    /\ program = "legacy"
    /\ phase = "serving"
    /\ is_loaded = TRUE /\ model = TRUE /\ processor = TRUE
    /\ load_count = 1
    /\ reading = 0 /\ upload = NoUpload
    /\ pc = "idle"
    /\ image = NoImage /\ label = <<>> /\ confidence = 0
    /\ result = NoResult /\ response = NoResponse
    /\ queries = <<>> /\ food = NoFood /\ forward = 0 /\ run_loads = 0

\* One item of the provider's answer.
NinjaItem == [name |-> JStr("food"), calories |-> JNum(52)]

\* The JSON body of an answer of the provider: not JSON, or a dict.
NinjaBodies ==
    { [json |-> FALSE],
      [json |-> TRUE, data |-> [error |-> JStr("denied")]],
      [json |-> TRUE, data |-> [items |-> JNull]],
      [json |-> TRUE, data |-> [items |-> JList(<<>>)]],
      [json |-> TRUE, data |-> [items |-> JList(<<NinjaItem>>)]] }

\* What requests.get(url, headers=...) does with no timeout: raises, returns a
\* response, or waits for an answer that never comes.
NinjaResponses ==
    { [kind |-> "connection"], [kind |-> "request"], [kind |-> "hang"] }
    \cup {[kind |-> "http", status_code |-> c, body |-> b] :
              c \in {200, 401, 500}, b \in NinjaBodies}

\* One search as sent: no timeout is passed (0); items as in Sent.
NinjaSent(term, resp) ==
    [term |-> term,
     timeout |-> 0,
     raised |-> (IF resp.kind = "http" THEN "nothing" ELSE resp.kind),
     status_code |-> (IF resp.kind = "http" THEN resp.status_code ELSE 0),
     items |-> (IF resp.kind = "http" /\ resp.body.json
                      /\ "items" \in DOMAIN resp.body.data
                      /\ resp.body.data.items.t = "list"
                THEN Len(resp.body.data.items.v) ELSE -1)]

\* predict_food_and_nutrition: response.json() and nutrition_data["items"],
\* whatever the status: the nutrition of the result, or Raise
NinjaNutrition(resp) ==
    IF resp.kind # "http" THEN Raise
    ELSE IF ~resp.body.json THEN Raise
    ELSE IF "items" \notin DOMAIN resp.body.data THEN Raise
    ELSE IF Falsy(resp.body.data.items) THEN [empty |-> TRUE]
    ELSE resp.body.data.items.v[1]

\* An exception leaves the handler: the framework answers 500.
InternalServerError == [status_code |-> 500]

\* POST /analyze, up to `await file.read()`
legacy_analyze_image ==
    /\ program = "legacy" /\ pc = "idle"
    /\ reading < NumRequests
    /\ reading' = reading + 1
    /\ UNCHANGED <<program, phase, upload, pc, response>>
    /\ UNCHANGED cache
    /\ UNCHANGED locals

\* POST /analyze, resumed: file.read() raised, or gave the bytes
legacy_analyze_image_read ==
    /\ program = "legacy" /\ pc = "idle"
    /\ reading > 0
    /\ reading' = reading - 1
    /\ \/ pc' = "done" /\ response' = InternalServerError
       \/ pc' = "l_predict" /\ UNCHANGED response
    /\ UNCHANGED <<program, phase, upload>>
    /\ UNCHANGED cache
    /\ UNCHANGED locals

\* predict_food_and_nutrition: Image.open, processor, forward pass, argmax;
\* the size of the image is not read and no confidence is computed
legacy_predict ==
    /\ program = "legacy" /\ pc = "l_predict"
    /\ \/ /\ pc' = "done" /\ response' = InternalServerError
          /\ forward' \in {forward, forward + 1}
          /\ UNCHANGED label
       \/ /\ \E l \in Labels : label' = l
          /\ forward' = forward + 1
          /\ pc' = "l_nutrition" /\ UNCHANGED response
    /\ UNCHANGED <<program, phase, reading, upload>>
    /\ UNCHANGED cache
    /\ UNCHANGED <<image, confidence, result, queries, food, run_loads>>

\* predict_food_and_nutrition: the search for the label as it is, and the result
legacy_nutrition ==
    /\ program = "legacy" /\ pc = "l_nutrition"
    /\ \E resp \in NinjaResponses :
          /\ queries' = Append(queries, NinjaSent(label, resp))
          /\ IF resp.kind = "hang"
             THEN pc' = "l_blocked" /\ UNCHANGED <<result, response>>
             ELSE IF NinjaNutrition(resp) = Raise
             THEN pc' = "done" /\ response' = InternalServerError /\ UNCHANGED result
             ELSE /\ result' = [predicted_food |-> label, nutrition |-> NinjaNutrition(resp)]
                  /\ response' = [status_code |-> 200, content |-> result']
                  /\ pc' = "done"
    /\ UNCHANGED <<program, phase, reading, upload>>
    /\ UNCHANGED cache
    /\ UNCHANGED <<image, label, confidence, food, forward, run_loads>>

LegacyNext ==
    \/ legacy_analyze_image
    \/ legacy_analyze_image_read
    \/ legacy_predict
    \/ legacy_nutrition
    \/ finish

LegacySpec == LegacyInit /\ [][LegacyNext]_vars

\* ------------------------------------------------------------------ claims
\* The run is over: the pipeline has returned its result.
Returned == pc = "done" /\ result # NoResult

\* C1: however the startup call and the calls of suspended and later requests
\* interleave, the load of model and processor runs to completion at most
\* once; is_loaded holds exactly when it has, and the server serves after its
\* startup only with the model loaded.
C1_LoadExactlyOnce ==
    /\ load_count <= 1
    /\ is_loaded <=> load_count = 1
    /\ phase = "serving" => is_loaded

\* C1 witness: a request passes load_model as a no-op after the one load,
\* while another request is suspended in file.read().
C1_Witness ==
    /\ program = "server" /\ pc = "decode" /\ run_loads = 0
    /\ load_count = 1 /\ reading > 0

\* C2: in the server, when the classification succeeded and the resolver was
\* called, the result has no top-level error and carries predicted_food,
\* confidence and nutrition, an error of the resolver being inside nutrition
\* only; /analyze answers 200 with that result.
C2_NutritionFailureKeepsSuccess ==
    (program = "server" /\ pc = "done" /\ queries # <<>>) =>
        /\ "error" \notin DOMAIN result
        /\ {"predicted_food", "confidence", "nutrition"} \subseteq DOMAIN result
        /\ result.predicted_food = Replace(label, "_", " ")
        /\ result.confidence = (confidence + 5) \div 10
        /\ response = [status_code |-> 200, content |-> result]

\* C2 witness: the provider answered 429, the classification is reported, 200.
C2_Witness ==
    /\ program = "server" /\ pc = "done" /\ Len(queries) = 1
    /\ queries[1].status_code = 429
    /\ "nutrition" \in DOMAIN result
    /\ "error" \in DOMAIN result.nutrition
    /\ response.status_code = 200

\* The classification of this run succeeded: a label was produced.
Classified == label # <<>>

Skipped == [error |-> "Skipped nutrition lookup due to low confidence"]

\* C3 as claimed, for every pipeline: below the threshold the resolver is
\* never called and the result carries the warning and the skipped error; at
\* or above it the resolver is called.
C3_Original ==
    /\ (Classified /\ confidence < CONFIDENCE_THRESHOLD) =>
          /\ queries = <<>>
          /\ Returned => ("warning" \in DOMAIN result /\ result.nutrition = Skipped)
    /\ (Returned /\ Classified /\ confidence >= CONFIDENCE_THRESHOLD) => queries # <<>>

\* C3, amended: the command-line classifier gates the lookup at 0.30 as
\* claimed; the server has no gate: it calls the resolver after every
\* successful classification and never sets a warning.
C3_GateInClassifierOnly ==
    /\ (program = "cli" /\ Classified /\ confidence < CONFIDENCE_THRESHOLD) =>
          /\ queries = <<>>
          /\ Returned => /\ "warning" \in DOMAIN result
                         /\ result.nutrition = Skipped
                         /\ result.predicted_food = label
    /\ (program = "cli" /\ Returned /\ Classified /\ confidence >= CONFIDENCE_THRESHOLD) =>
          /\ Len(queries) = 1
          /\ "warning" \notin DOMAIN result
    /\ (program = "server" /\ Returned /\ Classified) =>
          /\ queries # <<>>
          /\ "warning" \notin DOMAIN result

\* C3 witness: the classifier returned a prediction of confidence 0.2999 with
\* the warning, and no search was sent.
C3_Witness ==
    /\ program = "cli" /\ Returned /\ confidence = 2999
    /\ queries = <<>> /\ "warning" \in DOMAIN result

\* C4 as claimed: a run that returns an error has sent no search, one that
\* failed before inference has run no forward pass, and an image with a side
\* below 50 px gets the validation error "Image too small".
C4_Original ==
    Returned =>
        /\ "error" \in DOMAIN result => queries = <<>>
        /\ ("error" \in DOMAIN result /\ ~Classified /\ result.error # InferenceError.error
               /\ result.error # "Failed to analyze image") => forward = 0
        /\ (image # NoImage /\ (image.w < MIN_DIMENSION \/ image.h < MIN_DIMENSION)) =>
              /\ result = ImageTooSmall
              /\ forward = 0 /\ queries = <<>>

\* The first search found no food.
PrimaryEmpty == Len(queries) >= 1 /\ queries[1].items = 0

\* The normalized label holds more than one word.
MultiWord == Len(queries) >= 1 /\ WordCount(queries[1].term) > 1

\* C5 as claimed, for every resolver: after an empty first search for a label
\* of several words, exactly one more search, for the first word; never more
\* than two.
C5_Original ==
    /\ Len(queries) <= 2
    /\ (Returned /\ PrimaryEmpty /\ MultiWord) =>
          /\ Len(queries) = 2
          /\ queries[2].term = FirstWord(queries[1].term)

\* C5, amended: the server's resolver does as claimed; the command-line
\* resolver has no fallback and sends one search only.
C5_FallbackInServerOnly ==
    /\ Len(queries) <= 2
    /\ (program = "server" /\ Len(queries) >= 1) =>
          queries[1].term = Strip(Replace(label, "_", " "))
    /\ (program = "server" /\ Returned /\ PrimaryEmpty /\ MultiWord) =>
          /\ Len(queries) = 2
          /\ queries[2].term = FirstWord(queries[1].term)
    /\ (program = "server" /\ Len(queries) = 2) => PrimaryEmpty
    /\ program = "cli" => Len(queries) <= 1

\* C5 witness: "a_b" found nothing, and the second search was for "a".
C5_Witness ==
    /\ program = "server" /\ Returned /\ Len(queries) = 2
    /\ label = <<"a", "_", "b">>
    /\ queries[1].term = <<"a", " ", "b">> /\ queries[1].items = 0
    /\ queries[2].term = <<"a">>

\* C6: in the server, when both searches found no food, the resolver returns
\* "No nutrition data found" with a suggestion and with searched_term the
\* label with underscores as spaces, trimmed: the term of the first search,
\* not that of the fallback.
C6_NotFoundNamesOriginalTerm ==
    (program = "server" /\ Returned /\ Len(queries) = 2
        /\ queries[1].items = 0 /\ queries[2].items = 0) =>
        /\ "nutrition" \in DOMAIN result
        /\ DOMAIN result.nutrition = {"error", "searched_term", "suggestion"}
        /\ result.nutrition.error = "No nutrition data found"
        /\ result.nutrition.searched_term = Strip(Replace(label, "_", " "))
        /\ result.nutrition.searched_term = queries[1].term
        /\ MultiWord => result.nutrition.searched_term # queries[2].term

\* C6 witness: both searches for "a_b" found nothing; searched_term is "a b".
C6_Witness ==
    /\ program = "server" /\ Returned /\ Len(queries) = 2
    /\ queries[1].items = 0 /\ queries[2].items = 0
    /\ label = <<"a", "_", "b">>
    /\ "nutrition" \in DOMAIN result
    /\ result.nutrition = [error |-> "No nutrition data found",
                           searched_term |-> <<"a", " ", "b">>,
                           suggestion |-> "Try taking a clearer photo, a different angle, or a more common food name."]

\* C7 as claimed: by what the first search met, the resolver returns: for 401
\* and for 403 the authentication error, for 429 the rate-limit error, for a
\* timeout the timeout error, for a connection failure the connection error,
\* for another status outside 2xx an error carrying the status; and never a
\* nutrition record.
C7_Original ==
    (Returned /\ Len(queries) = 1 /\ "nutrition" \in DOMAIN result
        /\ (queries[1].raised \in {"timeout", "connection"}
            \/ queries[1].status_code \in {401, 403, 429, 500})) =>
        LET q == queries[1]
            n == result.nutrition
        IN  /\ "error" \in DOMAIN n
            /\ q.status_code \in {401, 403} =>
                  n.error \in {"Nutrition API authentication failed",
                               "USDA API authentication failed - check API key"}
            /\ q.status_code = 429 =>
                  n.error \in {"Rate limit exceeded. Please try again later",
                               "USDA API rate limit exceeded. Please try again later"}
            /\ q.raised = "timeout" =>
                  n.error \in {"Nutrition API timeout. Please try again",
                               "USDA API timeout. Please try again"}
            /\ q.raised = "connection" =>
                  n.error \in {"Cannot connect to nutrition API",
                               "Cannot connect to USDA API. Check internet connection"}
            /\ q.status_code = 500 =>
                  ("status_code" \in DOMAIN n /\ n.status_code = 500)

\* The nutrition record's fields of the server, each with the name it is
\* looked up by.
CanonicalNutrients ==
    { <<"calories", Energy>>, <<"protein_g", Protein>>,
      <<"carbohydrates_total_g", Carbohydrate>>, <<"fat_total_g", Total_lipid>>,
      <<"fiber_g", Fiber>>, <<"sugar_g", Sugars>>, <<"sodium_mg", Sodium>> }

\* The entries of the matched food whose name contains `name`, whatever the case.
EntriesNamed(name) ==
    LET fn == Get(food, "foodNutrients", JList(<<>>))
    IN  IF fn.t # "list" THEN {}
        ELSE {i \in 1..Len(fn.v) :
                 /\ Get(fn.v[i], "nutrientName", JNull).t = "str"
                 /\ Contains(Lower(name), Lower(fn.v[i].nutrientName.v))}

\* C8 as claimed: in a nutrition record of the server, a nutrient that no
\* entry of the matched food names is not reported as 0, and a nutrient
\* reported as 0 has a matching entry whose value is 0.
C8_Original ==
    (program = "server" /\ Returned /\ food # NoFood /\ "nutrition" \in DOMAIN result
        /\ "error" \notin DOMAIN result.nutrition) =>
        \A c \in CanonicalNutrients :
            /\ EntriesNamed(c[2]) = {} => result.nutrition[c[1]] # JNum(0)
            /\ result.nutrition[c[1]] = JNum(0) =>
                  \E i \in EntriesNamed(c[2]) :
                      Get(food.foodNutrients.v[i], "value", JNull) = JNum(0)

C10_Original ==
    /\ run_loads <= 1
    /\ (program = "server" /\ Returned /\ run_loads = 1 /\ ~is_loaded) =>
          /\ result = InferenceError
          /\ forward = 0
          /\ ~health_check.model_loaded

C12_Original ==
    (pc = "done" /\ queries # <<>> /\ queries[Len(queries)].raised = "nothing") =>
        /\ result # NoResult
        /\ "nutrition" \in DOMAIN result
        /\ response # [status_code |-> 500]

\* C13 as claimed: every search is sent with a timeout, and no run is left
\* waiting in a search.
C13_Original ==
    /\ \A i \in 1..Len(queries) : queries[i].timeout > 0
    /\ pc # "l_blocked"

\* C14: in every step, whatever loads succeed or fail, is_loaded is true only
\* with both the model and the processor set, and once true it stays true.
C14_ModelCacheInvariant ==
    [][/\ is_loaded => (model /\ processor)
       /\ is_loaded' => (model' /\ processor')
       /\ is_loaded => is_loaded']_vars

\* C14 witness: in this run the model loaded and the processor then failed:
\* the model is set, the processor is not, and is_loaded is false.
C14_Witness ==
    /\ run_loads = 1 /\ model /\ ~processor /\ ~is_loaded

\* C15: in the server, when the first search was answered 200 with no food
\* and the fallback search was answered with a status other than 200, the
\* nutrition of the result is the "No nutrition data found" error, its
\* searched_term the cleaned label; while a first search answered 401 or 429
\* gives the error mapped from that status.
C15_FallbackStatusIsNotFound ==
    /\ (program = "server" /\ Returned /\ Len(queries) = 2
           /\ queries[1].status_code = 200 /\ queries[1].items = 0
           /\ queries[2].raised = "nothing" /\ queries[2].status_code # 200) =>
          /\ "nutrition" \in DOMAIN result
          /\ DOMAIN result.nutrition = {"error", "searched_term", "suggestion"}
          /\ result.nutrition.error = "No nutrition data found"
          /\ result.nutrition.searched_term = Strip(Replace(label, "_", " "))
          /\ response.status_code = 200
    /\ (program = "server" /\ Returned /\ Len(queries) = 1
           /\ queries[1].status_code \in {401, 429}) =>
          result.nutrition \in {[error |-> "Nutrition API authentication failed"],
                                [error |-> "Rate limit exceeded. Please try again later"]}

\* C15 witness: the fallback search was answered 401, and the run reports
\* that no nutrition data was found.
C15_Witness ==
    /\ program = "server" /\ Returned /\ Len(queries) = 2
    /\ queries[1].status_code = 200 /\ queries[1].items = 0
    /\ queries[2].status_code = 401
    /\ result.nutrition.error = "No nutrition data found"

====
